---- MODULE Spec2Model ----
(***************************************************************************)
(* Agent workflow orchestrator of the CRM-agent course material.           *)
(*                                                                         *)
(* The module models the LangGraph workflows of the solutions (the fixed   *)
(* and the buggy clarification graph of exercise 1, the approval graph of  *)
(* exercise 2, the resilient graph of exercise 3, the deployed agent of    *)
(* exercise 4 with its HTTP handler) and the retry helper withRetry.       *)
(*                                                                         *)
(* A graph run is: execute the current node, merge the partial update it   *)
(* returns into the state through the channel reducers, follow the edge    *)
(* (fixed or through a router) to the next node, until END.                *)
(*                                                                         *)
(* Strings built by the code are modelled by a tag naming the template     *)
(* that built them; a user message is modelled by what the code reads of   *)
(* it (its length, the keywords it contains).                              *)
(***************************************************************************)
EXTENDS Integers, Sequences, FiniteSets, TLC

VARIABLES
    \* ---- clarification graphs (exercise 1) ----
    cGraph,      \* "fixed" | "buggy" | "off": which workflow this run executes
    cNode,       \* the node the engine executes next, or "END"
    cState,      \* the AgentState / BuggyState of the run
    cTrace,      \* the nodes executed so far, in order
    \* ---- approval graphs (exercises 2, 3, 4) and the HTTP handler ----
    graph,       \* "ex2" | "ex3" | "ex4" | "off": which program runs
    autoApprove, \* the process environment variable AUTO_APPROVE
    envAtStart,  \* AUTO_APPROVE as the process found it when it started
    dbLead,      \* the lead the leads table holds for the company asked about
    phase,       \* "idle" | "running" | "ended" | "threw" | "replied"
    node,        \* the node the engine executes next, or "END"
    state,       \* the AgentState of the run
    prevState,   \* the state the last executed node received
    lastUpdate,  \* the partial update the last executed node returned
    trace,       \* the nodes executed so far, in order
    effects,     \* the calls made to the collaborators that change something
    reply,       \* what runAgent returned to its caller
    decisions,   \* the approve / reject requests the HTTP handler has answered
    \* ---- withRetry ----
    rImpl,       \* "ex3" | "ex4" | "off": which withRetry
    rOpts,       \* the options of the call
    rPc,         \* "call" | "wait" | "returned" | "threw" | "off"
    rAttempt,    \* the loop variable attempt
    rCalls,      \* how many times fn has been invoked
    rLastError,  \* the variable lastError
    rWaits,      \* the delays waited so far, in order
    rThrown,     \* the error delivered to the caller
    rOutcomes,   \* what each invocation of fn gave, in order
    rDraws,      \* what Math.random() gave for each delay computed, in order
    \* ---- CircuitBreaker ----
    bFailures,   \* the field failures
    bLastFailure,\* the field lastFailure: a Date, or null
    bNow,        \* Date.now(), in milliseconds
    bRuns,       \* for each run sharing the breaker: its latest call of execute
    bStreak,     \* how many operations failed since the last one that succeeded
    bLastFailAt  \* when the last operation failed

clarVars == <<cGraph, cNode, cState, cTrace>>
crmVars == <<graph, autoApprove, envAtStart, dbLead, phase, node, state, prevState,
             lastUpdate, trace, effects, reply, decisions>>
retryVars == <<rImpl, rOpts, rPc, rAttempt, rCalls, rLastError, rWaits, rThrown,
               rOutcomes, rDraws>>
breakerVars == <<bFailures, bLastFailure, bNow, bRuns, bStreak, bLastFailAt>>
vars == <<clarVars, crmVars, retryVars, breakerVars>>

(***************************************************************************)
(* JavaScript values.                                                      *)
(***************************************************************************)
\* null (and undefined) where a string is expected
Null == "null"
\* null (and undefined) where an object is expected
NoObject == <<>>
END == "END"

Range(s) == {s[i] : i \in 1..Len(s)}
Last(s) == s[Len(s)]

\* the fields whose type admits null, and the null of each
StringOrNullFields == {"response", "error", "approvalStatus", "approvalReason"}
ObjectOrNullFields == {"intent", "selectedLead", "pendingAction", "errorDetails"}
NullOf(f) == IF f \in ObjectOrNullFields THEN NoObject ELSE Null
IsNullish(f, v) == f \in (StringOrNullFields \cup ObjectOrNullFields) /\ v = NullOf(f)

(***************************************************************************)
(* State channels.  Every channel of every graph is declared with the      *)
(* reducer  (a, b) => b ?? a : the update b replaces the current value a   *)
(* unless b is null or undefined.                                          *)
(***************************************************************************)
\* a faulty variant: the update always replaces the current value
Reducer_TakesUpdate(f, a, b) == b

Reducer(f, a, b) == IF IsNullish(f, b) THEN a ELSE b

\* The engine's merge of a node's partial update P into the state S: each
\* channel P writes goes through its reducer, the others keep their value.
Merge(S, P) ==
    [f \in DOMAIN S |-> IF f \in DOMAIN P THEN Reducer(f, S[f], P[f]) ELSE S[f]]

(***************************************************************************)
(* Exercise 1: the clarification graph, fixed and buggy.                   *)
(* userMessage is modelled by its length.                                  *)
(***************************************************************************)
\* bounds of the model
MaxMessageLength == 21
MaxMaxAttempts == 4
MaxSteps == 8

\* state.userMessage.length < 20
ShortMessageLimit == 20
\* maxAttempts: 3 in the initial state of runTests
TestMaxAttempts == 3

Ex1_InitialState(len, max) ==
    [userMessage |-> len, attempts |-> 0, maxAttempts |-> max,
     response |-> Null, needsMoreInfo |-> FALSE,
     askedForClarification |-> FALSE, error |-> Null]

\* a faulty variant: the attempts are counted but never checked
Ex1_analyzeRequest_NoLimit(s) ==
    IF s.askedForClarification
    THEN [response |-> "best_effort", needsMoreInfo |-> FALSE,
          attempts |-> s.attempts + 1]
    ELSE IF s.userMessage < ShortMessageLimit
    THEN [needsMoreInfo |-> TRUE, attempts |-> s.attempts + 1]
    ELSE [response |-> "analyzed_successfully", needsMoreInfo |-> FALSE,
          attempts |-> s.attempts + 1]

Ex1_analyzeRequest(s) ==
    IF s.attempts >= s.maxAttempts
    THEN [response |-> "max_attempts_give_up", needsMoreInfo |-> FALSE,
          error |-> "Max attempts exceeded"]
    ELSE IF s.askedForClarification
    THEN [response |-> "best_effort", needsMoreInfo |-> FALSE,
          attempts |-> s.attempts + 1]
    ELSE IF s.userMessage < ShortMessageLimit
    THEN [needsMoreInfo |-> TRUE, attempts |-> s.attempts + 1]
    ELSE [response |-> "analyzed_successfully", needsMoreInfo |-> FALSE,
          attempts |-> s.attempts + 1]

\* a faulty variant: the flag is cleared, nothing else is recorded
Ex1_requestClarification_OnlyClearsFlag(s) ==
    [needsMoreInfo |-> FALSE]

Ex1_requestClarification(s) ==
    [response |-> "provide_more_details", needsMoreInfo |-> FALSE,
     askedForClarification |-> TRUE]

Ex1_routeAnalysis(s) ==
    IF s.response # Null THEN "end"
    ELSE IF s.attempts >= s.maxAttempts THEN "end"
    ELSE IF s.error # Null THEN "end"
    ELSE IF s.needsMoreInfo /\ ~s.askedForClarification THEN "request_clarification"
    ELSE "end"

\* addConditionalEdges("analyze_request", routeAnalysis, {...})
Ex1_AnalyzeEdges(dest) ==
    IF dest = "request_clarification" THEN "request_clarification" ELSE END

Buggy_InitialState(len) ==
    [userMessage |-> len, attempts |-> 0, response |-> Null, needsMoreInfo |-> FALSE]

Buggy_analyzeRequest(s) ==
    IF s.userMessage < ShortMessageLimit
    THEN [needsMoreInfo |-> TRUE, attempts |-> s.attempts + 1]
    ELSE [response |-> "analyzed_successfully"]

Buggy_requestClarification(s) ==
    [response |-> "provide_more_details"]

\* a variant with an exit: a run that has a response ends
Buggy_routeAnalysis_ChecksResponse(s) ==
    IF s.response # Null THEN "end"
    ELSE IF s.needsMoreInfo THEN "request_clarification" ELSE "end"

Buggy_routeAnalysis(s) ==
    IF s.needsMoreInfo THEN "request_clarification" ELSE "end"

ClarOff ==
    /\ cGraph = "off"
    /\ cNode = "off"
    /\ cState = NoObject
    /\ cTrace = <<>>

ClarInit ==
    /\ cGraph \in {"fixed", "buggy"}
    /\ cNode = "analyze_request"
    /\ cTrace = <<>>
    /\ \E len \in 0..MaxMessageLength :
         \/ /\ cGraph = "fixed"
            /\ \E max \in 0..MaxMaxAttempts : cState = Ex1_InitialState(len, max)
         \/ /\ cGraph = "buggy"
            /\ cState = Buggy_InitialState(len)

\* One step of the engine on the fixed graph: analyze_request, then its router.
Ex1_AnalyzeRequest ==
    /\ cGraph = "fixed"
    /\ cNode = "analyze_request"
    /\ cState' = Merge(cState, Ex1_analyzeRequest(cState))
    /\ cNode' = Ex1_AnalyzeEdges(Ex1_routeAnalysis(cState'))
    /\ cTrace' = Append(cTrace, "analyze_request")
    /\ UNCHANGED <<cGraph, crmVars, retryVars, breakerVars>>

\* request_clarification, then the fixed edge back to analyze_request.
Ex1_RequestClarification ==
    /\ cGraph = "fixed"
    /\ cNode = "request_clarification"
    /\ cState' = Merge(cState, Ex1_requestClarification(cState))
    /\ cNode' = "analyze_request"
    /\ cTrace' = Append(cTrace, "request_clarification")
    /\ UNCHANGED <<cGraph, crmVars, retryVars, breakerVars>>

\* The buggy graph has no exit of its own for a short message; the model
\* follows it for MaxSteps node executions.
Buggy_AnalyzeRequest ==
    /\ cGraph = "buggy"
    /\ cNode = "analyze_request"
    /\ Len(cTrace) < MaxSteps
    /\ cState' = Merge(cState, Buggy_analyzeRequest(cState))
    /\ cNode' = Ex1_AnalyzeEdges(Buggy_routeAnalysis(cState'))
    /\ cTrace' = Append(cTrace, "analyze_request")
    /\ UNCHANGED <<cGraph, crmVars, retryVars, breakerVars>>

Buggy_RequestClarification ==
    /\ cGraph = "buggy"
    /\ cNode = "request_clarification"
    /\ Len(cTrace) < MaxSteps
    /\ cState' = Merge(cState, Buggy_requestClarification(cState))
    /\ cNode' = "analyze_request"
    /\ cTrace' = Append(cTrace, "request_clarification")
    /\ UNCHANGED <<cGraph, crmVars, retryVars, breakerVars>>

(***************************************************************************)
(* The CRM agents (exercises 2, 3, 4): shared data.                        *)
(*                                                                         *)
(* A user message is modelled by the set of keywords it contains (the code *)
(* reads it only through  lower.includes(keyword) ).  The collaborators    *)
(* (the language model, the leads table, the email service) answer         *)
(* nondeterministically.                                                   *)
(***************************************************************************)
\* bounds of the model
ScoreSpread == 2
MaxDecisions == 2

\* parseInt(Deno.env.get("HIGH_VALUE_THRESHOLD") || "80")
HIGH_VALUE_THRESHOLD == 80

Scores == (HIGH_VALUE_THRESHOLD - ScoreSpread)..(HIGH_VALUE_THRESHOLD + ScoreSpread)

Lead(score) ==
    [id |-> "lead-1", company_name |-> "techcorp", status |-> "new", score |-> score]

\* the messages of the tests, and a few more
Messages ==
    { {"mark", "techcorp", "won"},       \* "Mark TechCorp as won"
      {"mark", "techcorp", "lost"},      \* "Mark GlobalRetail as lost"
      {"update", "techcorp"},            \* no change named
      {"show", "leads"},                 \* "Show me all leads"
      {"send", "follow", "techcorp"},    \* "Send follow-up to TechCorp"
      {"hello"},                         \* "Hello"
      {} }                               \* ""

includes(message, keyword) == keyword \in message

\* what the language model may answer: {"type": ..., "target": ...}
IntentTypes == {"lookup", "update", "followup", "unknown"}
Targets == {Null, "techcorp"}
Intents == [type : IntentTypes, target : Targets]

\* state.intent?.target
TargetOf(s) == IF s.intent = NoObject THEN Null ELSE s.intent.target
\* state.intent?.type
TypeOf(s) == IF s.intent = NoObject THEN Null ELSE s.intent.type

AutoApproveValues == {"true", "false", ""}

\* A call to a collaborator that changes something outside the run.
Effect(call, n, s, ok) ==
    [call |-> call, node |-> n, approvalStatus |-> s.approvalStatus,
     score |-> dbLead.score, ok |-> ok]

\* What one execution of a node gives: the partial update it returns (or the
\* exception it throws) and the collaborator calls it made on the way.
Returns(update, fx) == [update |-> update, fx |-> fx, throws |-> FALSE]
Throws(fx) == [update |-> NoObject, fx |-> fx, throws |-> TRUE]

(***************************************************************************)
(* Approval rule.                                                          *)
(***************************************************************************)
\* a faulty variant: the threshold itself already needs approval
needsApproval_AtLeast(actionType, lead) ==
    IF actionType = "send_email" THEN TRUE
    ELSE IF actionType = "update_lead" /\ lead # NoObject
            /\ lead.score >= HIGH_VALUE_THRESHOLD THEN TRUE
    ELSE FALSE

needsApproval(actionType, lead) ==
    IF actionType = "send_email" THEN TRUE
    ELSE IF actionType = "update_lead" /\ lead # NoObject
            /\ lead.score > HIGH_VALUE_THRESHOLD THEN TRUE
    ELSE FALSE

(***************************************************************************)
(* Exercise 2: the approval graph.                                         *)
(***************************************************************************)
Ex2_InitialState(message) ==
    [userMessage |-> message, intent |-> NoObject, leads |-> <<>>,
     selectedLead |-> NoObject, pendingAction |-> NoObject,
     approvalStatus |-> Null, approvalReason |-> Null,
     response |-> Null, error |-> Null]

\* The language model classifies the message; the call, or JSON.parse of
\* its answer, may throw (the node has no try/catch).
Ex2_understandRequest(s) ==
    {Returns([intent |-> i], <<>>) : i \in Intents} \cup {Throws(<<>>)}

Ex2_parseChanges(message) ==
    IF includes(message, "won")
       \/ (includes(message, "close") /\ includes(message, "deal"))
    THEN [status |-> "won"]
    ELSE IF includes(message, "lost") \/ includes(message, "competitor")
    THEN [status |-> "lost"]
    ELSE IF includes(message, "qualified") THEN [status |-> "qualified"]
    ELSE IF includes(message, "proposal") THEN [status |-> "proposal"]
    ELSE IF includes(message, "contact") THEN [status |-> "contacted"]
    ELSE <<>>

\* executeUpdate(lead, changes, state), called by the node n
Ex2_executeUpdate(n, s) ==
    { Returns([error |-> "storage_error_message", response |-> "failed_to_update"],
              <<Effect("leads.update", n, s, FALSE)>>),
      Returns([response |-> "updated", pendingAction |-> NoObject,
               approvalStatus |-> Null],
              <<Effect("leads.update", n, s, TRUE),
                Effect("interactions.insert", n, s, TRUE)>>) }

Ex2_handleUpdate(s) ==
    IF TargetOf(s) = Null
    THEN {Returns([response |-> "which_lead"], <<>>)}
    ELSE
      \* error || !leads?.length
      {Returns([error |-> e, response |-> "could_not_find"], <<>>) :
          e \in {"storage_error_message", "Lead not found"}}
      \cup
      \* lead = leads[0]
      (LET lead == dbLead
           changes == Ex2_parseChanges(s.userMessage)
       IN IF DOMAIN changes = {}
          THEN {Returns([response |-> "what_to_change", selectedLead |-> lead], <<>>)}
          ELSE IF needsApproval("update_lead", lead)
          THEN {Returns([selectedLead |-> lead,
                         pendingAction |-> [type |-> "update_lead", leadId |-> lead.id,
                                            leadName |-> lead.company_name,
                                            changes |-> changes],
                         approvalStatus |-> "pending",
                         response |-> "approval_required"], <<>>)}
          ELSE Ex2_executeUpdate("handle_update", s))

Ex2_humanReview(s) ==
    IF autoApprove = "true"
    THEN {Returns([approvalStatus |-> "approved",
                   approvalReason |-> "Auto-approved for testing"], <<>>)}
    ELSE IF autoApprove = "false"
    THEN {Returns([approvalStatus |-> "rejected",
                   approvalReason |-> "Auto-rejected for testing"], <<>>)}
    ELSE {Returns([response |-> "waiting_for_approval"], <<>>)}

Ex2_executeApprovedUpdate(s) ==
    IF s.pendingAction = NoObject \/ s.pendingAction.type # "update_lead"
       \/ "changes" \notin DOMAIN s.pendingAction
    THEN {Returns([error |-> "No valid pending update"], <<>>)}
    ELSE Ex2_executeUpdate("execute_approved_update", s)

Ex2_handleRejection(s) ==
    {Returns([response |-> "update_rejected", pendingAction |-> NoObject,
              approvalStatus |-> Null, approvalReason |-> Null],
             IF s.pendingAction # NoObject
             THEN <<Effect("interactions.insert", "handle_rejection", s, TRUE)>>
             ELSE <<>>)}

Ex2_handleLookup(s) ==
    { Returns([error |-> "storage_error_message", response |-> "failed_to_query"], <<>>),
      Returns([response |-> "no_leads_found"], <<>>),
      Returns([leads |-> <<dbLead>>, response |-> "found_leads"], <<>>) }

Ex2_handleOther(s) ==
    {Returns([response |-> "coming_soon"], <<>>)}

Ex2_routeByIntent(s) ==
    CASE TypeOf(s) = "lookup" -> "handle_lookup"
      [] TypeOf(s) = "update" -> "handle_update"
      [] OTHER -> "handle_other"

Ex2_routeAfterUpdate(s) ==
    IF s.approvalStatus = "pending" THEN "human_review" ELSE "end"

\* a faulty variant: the two decisions lead to each other's node
Ex2_routeAfterReview_Swapped(s) ==
    IF s.approvalStatus = "rejected" THEN "execute_approved_update"
    ELSE IF s.approvalStatus = "approved" THEN "handle_rejection"
    ELSE "end"

Ex2_routeAfterReview(s) ==
    IF s.approvalStatus = "approved" THEN "execute_approved_update"
    ELSE IF s.approvalStatus = "rejected" THEN "handle_rejection"
    ELSE "end"


(***************************************************************************)
(* Exercise 4: the deployed agent.                                         *)
(***************************************************************************)
Ex4_InitialState(message) ==
    [userMessage |-> message, intent |-> NoObject, leads |-> <<>>,
     selectedLead |-> NoObject, pendingAction |-> NoObject,
     approvalStatus |-> Null, response |-> Null, error |-> Null]

\* the model's answer, or the catch branch when the call or the parse throws
Ex4_understandRequest(s) ==
    {Returns([intent |-> i], <<>>) : i \in Intents}
    \cup {Returns([error |-> "exception_message",
                   response |-> "trouble_understanding"], <<>>)}

Ex4_handleLookup(s) ==
    { Returns([error |-> "storage_error_message", response |-> "failed_to_fetch"], <<>>),
      Returns([response |-> "no_leads_found"], <<>>),
      Returns([leads |-> <<dbLead>>, response |-> "found_leads"], <<>>) }

Ex4_parseChanges(message) ==
    IF includes(message, "won") THEN [status |-> "won"]
    ELSE IF includes(message, "lost") THEN [status |-> "lost"]
    ELSE IF includes(message, "qualified") THEN [status |-> "qualified"]
    ELSE <<>>

Ex4_handleUpdate(s) ==
    IF TargetOf(s) = Null
    THEN {Returns([response |-> "which_lead"], <<>>)}
    ELSE
      \* !leads?.length (the query's error field is not read)
      {Returns([response |-> "could_not_find"], <<>>)}
      \cup
      \* the catch branch
      {Returns([error |-> "exception_message", response |-> "failed_to_update"], <<>>)}
      \cup
      (LET lead == dbLead
           changes == Ex4_parseChanges(s.userMessage)
       IN IF DOMAIN changes = {}
          THEN {Returns([response |-> "what_to_change", selectedLead |-> lead], <<>>)}
          ELSE IF needsApproval("update_lead", lead)
          THEN {Returns([selectedLead |-> lead,
                         pendingAction |-> [type |-> "update_lead", leadId |-> lead.id,
                                            leadName |-> lead.company_name,
                                            changes |-> changes],
                         approvalStatus |-> "pending",
                         response |-> "approval_required"], <<>>)}
          ELSE \* execute directly; the result of the update is not read
               {Returns([response |-> "updated"],
                        <<Effect("leads.update", "handle_update", s, ok)>>) :
                   ok \in BOOLEAN})

Ex4_handleFollowup(s) ==
    IF TargetOf(s) = Null
    THEN {Returns([response |-> "who_to_follow_up"], <<>>)}
    ELSE
      { Returns([response |-> "could_not_find"], <<>>),
        Returns([error |-> "exception_message",
                 response |-> "failed_to_prepare_email"], <<>>),
        Returns([selectedLead |-> dbLead,
                 pendingAction |-> [type |-> "send_email", leadId |-> dbLead.id,
                                    leadName |-> dbLead.company_name,
                                    emailContent |-> "follow_up_email"],
                 approvalStatus |-> "pending",
                 response |-> "ready_to_send"], <<>>) }

Ex4_handleOther(s) ==
    {Returns([response |-> "try_examples"], <<>>)}

Ex4_humanReview(s) ==
    IF autoApprove = "true" THEN {Returns([approvalStatus |-> "approved"], <<>>)}
    ELSE IF autoApprove = "false" THEN {Returns([approvalStatus |-> "rejected"], <<>>)}
    ELSE {Returns(<<>>, <<>>)}

Ex4_executeApproved(s) ==
    LET pending == s.pendingAction
        n == "execute_approved"
    IN IF pending = NoObject
       THEN {Returns([error |-> "No pending action"], <<>>)}
       ELSE IF pending.type = "update_lead" /\ "changes" \in DOMAIN pending
       THEN {Returns([response |-> "updated", pendingAction |-> NoObject,
                      approvalStatus |-> Null],
                     <<Effect("leads.update", n, s, ok),
                       Effect("interactions.insert", n, s, TRUE)>>) :
                ok \in BOOLEAN}
       ELSE IF pending.type = "send_email" /\ "emailContent" \in DOMAIN pending
       THEN { \* !result.success
              Returns([error |-> "email_service_error", response |-> "email_failed"],
                      <<Effect("email.send", n, s, FALSE)>>),
              Returns([response |-> "email_sent", pendingAction |-> NoObject,
                       approvalStatus |-> Null],
                      <<Effect("email.send", n, s, TRUE),
                        Effect("interactions.insert", n, s, TRUE),
                        Effect("leads.update", n, s, TRUE)>>) }
       ELSE {Returns([error |-> "Unknown action type"], <<>>)}

Ex4_handleRejection(s) ==
    {Returns([response |-> "action_rejected", pendingAction |-> NoObject,
              approvalStatus |-> Null], <<>>)}

\* a faulty variant: a lookup is routed to the update handler
Ex4_routeByIntent_LookupAsUpdate(s) ==
    IF s.error # Null THEN "end"
    ELSE CASE TypeOf(s) \in {"lookup", "update"} -> "handle_update"
           [] TypeOf(s) = "followup" -> "handle_followup"
           [] OTHER -> "handle_other"

Ex4_routeByIntent(s) ==
    IF s.error # Null THEN "end"
    ELSE CASE TypeOf(s) = "lookup" -> "handle_lookup"
           [] TypeOf(s) = "update" -> "handle_update"
           [] TypeOf(s) = "followup" -> "handle_followup"
           [] OTHER -> "handle_other"

Ex4_routeAfterAction(s) ==
    IF s.approvalStatus = "pending" THEN "human_review" ELSE "end"

\* a faulty variant: everything but a rejection goes on to execution
Ex4_routeAfterReview_Ungated(s) ==
    IF s.approvalStatus = "rejected" THEN "handle_rejection"
    ELSE "execute_approved"

Ex4_routeAfterReview(s) ==
    IF s.approvalStatus = "approved" THEN "execute_approved"
    ELSE IF s.approvalStatus = "rejected" THEN "handle_rejection"
    ELSE "end"

(***************************************************************************)
(* Exercise 3: the resilient agent.                                        *)
(***************************************************************************)
Ex3_InitialState(message) ==
    [userMessage |-> message, intent |-> NoObject, leads |-> <<>>,
     pendingAction |-> NoObject, approvalStatus |-> Null,
     response |-> Null, error |-> Null, errorDetails |-> NoObject]

\* the messages of the errors the collaborators raise
ErrorMessages == {"timeout", "not found", "permission", "rate limit", "unexpected"}

Ex3_formatUserError(message) ==
    IF message = "timeout" THEN "trouble_connecting"
    ELSE IF message = "not found" THEN "could_not_find_it"
    ELSE IF message = "permission" THEN "no_permission"
    ELSE IF message = "rate limit" THEN "rate_limited"
    ELSE "something_went_wrong"

\* response?.includes("❌") || response?.includes("trouble")
Ex3_HasFriendlyResponse(s) ==
    s.response \in {"email_failed", "email_not_sent", "trouble_connecting",
                    "trouble_understanding"}

Ex3_Companies == {"techcorp", "globalretail", "megabank", "startupxyz", "localcafe"}

Ex3_extractCompanyName(message) ==
    IF \E c \in Ex3_Companies : includes(message, c)
    THEN CHOOSE c \in Ex3_Companies : includes(message, c)
    ELSE Null

Ex3_understandRequest(s) ==
    LET m == s.userMessage IN
    IF includes(m, "follow") \/ includes(m, "email") \/ includes(m, "send")
    THEN {Returns([intent |-> [type |-> "followup",
                               target |-> Ex3_extractCompanyName(m)]], <<>>)}
    ELSE IF includes(m, "show") \/ includes(m, "list") \/ includes(m, "find")
    THEN {Returns([intent |-> [type |-> "lookup",
                               target |-> Ex3_extractCompanyName(m)]], <<>>)}
    ELSE {Returns([intent |-> [type |-> "unknown", target |-> Null]], <<>>)}

\* a faulty variant: asks for approval without recording the proposed action
Ex3_handleFollowup_StatusOnly(s) ==
    IF TargetOf(s) = Null
    THEN {Returns([response |-> "who_to_follow_up"], <<>>)}
    ELSE {Returns([approvalStatus |-> "pending", response |-> "ready_to_send"], <<>>)}

Ex3_handleFollowup(s) ==
    IF TargetOf(s) = Null
    THEN {Returns([response |-> "who_to_follow_up"], <<>>)}
    ELSE
      {Returns([response |-> "could_not_find"], <<>>)}
      \cup
      {Returns([pendingAction |-> [type |-> "send_email", leadId |-> dbLead.id,
                                   leadName |-> dbLead.company_name,
                                   emailContent |-> "follow_up_email"],
                approvalStatus |-> "pending",
                response |-> "ready_to_send"], <<>>)}
      \cup
      \* queryLeadsWithRetry threw
      {Returns([error |-> e, errorDetails |-> [node |-> "handleFollowup", error |-> e],
                response |-> Ex3_formatUserError(e)], <<>>) : e \in ErrorMessages}

Ex3_executeApprovedEmail(s) ==
    LET pending == s.pendingAction
        n == "execute_email"
    IN IF pending = NoObject \/ pending.type # "send_email"
          \/ "emailContent" \notin DOMAIN pending
       THEN {Returns([error |-> "No valid pending email"], <<>>)}
       ELSE
         {Returns([response |-> "email_sent", pendingAction |-> NoObject,
                   approvalStatus |-> Null],
                  <<Effect("email.send", n, s, TRUE),
                    Effect("interactions.insert", n, s, TRUE),
                    Effect("leads.update", n, s, TRUE)>>)}
         \cup
         \* sendEmail threw once its retries were used up
         {Returns([error |-> e, response |-> "email_failed"],
                  <<Effect("email.send", n, s, FALSE)>>) : e \in ErrorMessages}

Ex3_errorRecovery(s) ==
    IF Ex3_HasFriendlyResponse(s)
    THEN {Returns([error |-> Null, errorDetails |-> NoObject], <<>>)}
    ELSE {Returns([response |-> "recovery_advice", error |-> Null,
                   errorDetails |-> NoObject, pendingAction |-> NoObject,
                   approvalStatus |-> Null], <<>>)}

Ex3_handleLookup(s) ==
    {Returns([response |-> "no_leads_found"], <<>>),
     Returns([leads |-> <<dbLead>>, response |-> "found_leads"], <<>>)}
    \cup
    {Returns([error |-> e, response |-> Ex3_formatUserError(e)], <<>>) :
        e \in ErrorMessages}

Ex3_handleOther(s) ==
    {Returns([response |-> "try_examples"], <<>>)}

Ex3_humanReview(s) ==
    IF autoApprove = "true" THEN {Returns([approvalStatus |-> "approved"], <<>>)}
    ELSE IF autoApprove = "false" THEN {Returns([approvalStatus |-> "rejected"], <<>>)}
    ELSE {Returns(<<>>, <<>>)}

Ex3_handleRejection(s) ==
    {Returns([response |-> "email_not_sent", pendingAction |-> NoObject,
              approvalStatus |-> Null], <<>>)}

\* a faulty variant: an error ends the run, as in exercise 4
Ex3_routeByIntent_ErrorEnds(s) ==
    IF s.error # Null THEN "end"
    ELSE CASE TypeOf(s) = "lookup" -> "handle_lookup"
           [] TypeOf(s) = "followup" -> "handle_followup"
           [] OTHER -> "handle_other"

Ex3_routeByIntent(s) ==
    IF s.error # Null THEN "error_recovery"
    ELSE CASE TypeOf(s) = "lookup" -> "handle_lookup"
           [] TypeOf(s) = "followup" -> "handle_followup"
           [] OTHER -> "handle_other"

Ex3_routeAfterFollowup(s) ==
    IF s.error # Null THEN "error_recovery"
    ELSE IF s.approvalStatus = "pending" THEN "human_review"
    ELSE "end"

Ex3_routeAfterReview(s) ==
    IF s.approvalStatus = "approved" THEN "execute_email"
    ELSE IF s.approvalStatus = "rejected" THEN "handle_rejection"
    ELSE "end"

(***************************************************************************)
(* Day 1: the starter graph (classify, query, format).                     *)
(***************************************************************************)
Day1_Intents == [type : {"query", "update", "followup", "unknown"}, target : Targets]

Day1_InitialState(message) ==
    [userMessage |-> message, intent |-> NoObject, leads |-> <<>>,
     response |-> Null, error |-> Null]

\* the model's answer, or the catch branch when the call or the parse throws
Day1_classifyIntent(s) ==
    {Returns([intent |-> i], <<>>) : i \in Day1_Intents}
    \cup {Returns([intent |-> [type |-> "unknown", target |-> Null],
                   error |-> "could_not_understand"], <<>>)}

Day1_queryLeads(s) ==
    IF s.intent = NoObject THEN {Returns([response |-> "not_sure"], <<>>)}
    ELSE { Returns([error |-> "failed_to_query",
                    response |-> "trouble_accessing"], <<>>),
           Returns([leads |-> <<>>], <<>>),
           Returns([leads |-> <<dbLead>>], <<>>) }

Day1_formatResponse(s) ==
    IF Len(s.leads) = 0 THEN {Returns([response |-> "no_leads_found"], <<>>)}
    ELSE IF Len(s.leads) = 1 THEN {Returns([response |-> "lead_details"], <<>>)}
    ELSE {Returns([response |-> "found_leads"], <<>>)}

Day1_handleUpdate(s) == {Returns([response |-> "update_in_day_2"], <<>>)}

Day1_handleFollowup(s) == {Returns([response |-> "email_in_day_2"], <<>>)}

Day1_routeIntent(s) ==
    IF s.error # Null THEN "end"
    ELSE CASE TypeOf(s) = "query" -> "query_leads"
           [] TypeOf(s) = "update" -> "handle_update"
           [] TypeOf(s) = "followup" -> "handle_followup"
           [] OTHER -> "end"

\* a faulty variant: the response is formatted whatever the query gave
Day1_routeAfterQuery_Always(s) == "format_response"

Day1_routeAfterQuery(s) ==
    IF s.error # Null THEN "end" ELSE "format_response"

(***************************************************************************)
(* The nodes each graph registers and the destination map of each of its   *)
(* conditional edges.                                                      *)
(***************************************************************************)
Day1_Graph ==
    [nodes |-> {"classify_intent", "query_leads", "format_response",
                "handle_update", "handle_followup"},
     maps |->
       [classify_intent |->
          [query_leads |-> "query_leads", handle_update |-> "handle_update",
           handle_followup |-> "handle_followup", end |-> END],
        query_leads |-> [format_response |-> "format_response", end |-> END]]]

Ex2_Graph ==
    [nodes |-> {"understand_request", "handle_lookup", "handle_update",
                "handle_other", "human_review", "execute_approved_update",
                "handle_rejection"},
     maps |->
       [understand_request |->
          [handle_lookup |-> "handle_lookup", handle_update |-> "handle_update",
           handle_other |-> "handle_other"],
        handle_update |-> [human_review |-> "human_review", end |-> END],
        human_review |->
          [execute_approved_update |-> "execute_approved_update",
           handle_rejection |-> "handle_rejection", end |-> END]]]

Ex3_Graph ==
    [nodes |-> {"understand_request", "handle_lookup", "handle_followup",
                "handle_other", "human_review", "execute_email",
                "handle_rejection", "error_recovery"},
     maps |->
       [understand_request |->
          [handle_lookup |-> "handle_lookup",
           handle_followup |-> "handle_followup",
           handle_other |-> "handle_other",
           error_recovery |-> "error_recovery"],
        handle_followup |->
          [human_review |-> "human_review", error_recovery |-> "error_recovery",
           end |-> END],
        human_review |->
          [execute_email |-> "execute_email",
           handle_rejection |-> "handle_rejection", end |-> END]]]

Ex4_Graph ==
    [nodes |-> {"understand_request", "handle_lookup", "handle_update",
                "handle_followup", "handle_other", "human_review",
                "execute_approved", "handle_rejection"},
     maps |->
       [understand_request |->
          [handle_lookup |-> "handle_lookup", handle_update |-> "handle_update",
           handle_followup |-> "handle_followup",
           handle_other |-> "handle_other", end |-> END],
        handle_update |-> [human_review |-> "human_review", end |-> END],
        handle_followup |-> [human_review |-> "human_review", end |-> END],
        human_review |->
          [execute_approved |-> "execute_approved",
           handle_rejection |-> "handle_rejection", end |-> END]]]

\* The engine looks the router's return value up in the destination map; a
\* value that is not a key has no destination and the run fails.
Follow(map, key) == IF key \in DOMAIN map THEN map[key] ELSE "undefined"

(***************************************************************************)
(* The engine and the entry points of the CRM agents.                      *)
(***************************************************************************)
CrmOff ==
    /\ graph = "off"
    /\ autoApprove = ""
    /\ envAtStart = ""
    /\ dbLead = NoObject
    /\ phase = "off"
    /\ node = "off"
    /\ state = NoObject
    /\ prevState = NoObject
    /\ lastUpdate = NoObject
    /\ trace = <<>>
    /\ effects = <<>>
    /\ reply = NoObject
    /\ decisions = <<>>

\* the process is up, no request has arrived yet
CrmInit ==
    /\ graph \in {"day1", "ex2", "ex3", "ex4"}
    /\ autoApprove \in AutoApproveValues
    /\ envAtStart = autoApprove
    /\ dbLead \in {Lead(sc) : sc \in Scores}
    /\ phase = "idle"
    /\ node = "none"
    /\ state = NoObject
    /\ prevState = NoObject
    /\ lastUpdate = NoObject
    /\ trace = <<>>
    /\ effects = <<>>
    /\ reply = NoObject
    /\ decisions = <<>>

\* app.invoke(initialState): the run starts at the entry point
Invoke(initialState) ==
    /\ phase = "idle"
    /\ phase' = "running"
    /\ node' = IF graph = "day1" THEN "classify_intent" ELSE "understand_request"
    /\ state' = initialState
    /\ UNCHANGED <<graph, autoApprove, envAtStart, dbLead, prevState, lastUpdate, trace,
                   effects, reply, decisions>>
    /\ UNCHANGED <<clarVars, retryVars, breakerVars>>

\* The edges of the graphs: where a run goes after node n, given the state s
\* that n's update was merged into.
Day1_Edges(n, s) ==
    CASE n = "classify_intent" -> Follow(Day1_Graph.maps.classify_intent, Day1_routeIntent(s))
      [] n = "query_leads" -> Follow(Day1_Graph.maps.query_leads, Day1_routeAfterQuery(s))
      [] OTHER -> END

Ex2_Edges(n, s) ==
    CASE n = "understand_request" -> Follow(Ex2_Graph.maps.understand_request, Ex2_routeByIntent(s))
      [] n = "handle_update" -> Follow(Ex2_Graph.maps.handle_update, Ex2_routeAfterUpdate(s))
      [] n = "human_review" -> Follow(Ex2_Graph.maps.human_review, Ex2_routeAfterReview(s))
      [] OTHER -> END

Ex3_Edges(n, s) ==
    CASE n = "understand_request" -> Follow(Ex3_Graph.maps.understand_request, Ex3_routeByIntent(s))
      [] n = "handle_followup" -> Follow(Ex3_Graph.maps.handle_followup, Ex3_routeAfterFollowup(s))
      [] n = "human_review" -> Follow(Ex3_Graph.maps.human_review, Ex3_routeAfterReview(s))
      [] OTHER -> END

\* a faulty variant: the edge out of execute_approved leads to handle_rejection
Ex4_Edges_ExecuteThenReject(n, s) ==
    CASE n = "understand_request" -> Follow(Ex4_Graph.maps.understand_request, Ex4_routeByIntent(s))
      [] n \in {"handle_update", "handle_followup"} ->
           Follow(Ex4_Graph.maps[n], Ex4_routeAfterAction(s))
      [] n = "human_review" -> Follow(Ex4_Graph.maps.human_review, Ex4_routeAfterReview(s))
      [] n = "execute_approved" -> "handle_rejection"
      [] OTHER -> END

Ex4_Edges(n, s) ==
    CASE n = "understand_request" -> Follow(Ex4_Graph.maps.understand_request, Ex4_routeByIntent(s))
      [] n \in {"handle_update", "handle_followup"} ->
           Follow(Ex4_Graph.maps[n], Ex4_routeAfterAction(s))
      [] n = "human_review" -> Follow(Ex4_Graph.maps.human_review, Ex4_routeAfterReview(s))
      [] OTHER -> END

Edges(n, s) ==
    CASE graph = "day1" -> Day1_Edges(n, s)
      [] graph = "ex2" -> Ex2_Edges(n, s)
      [] graph = "ex3" -> Ex3_Edges(n, s)
      [] graph = "ex4" -> Ex4_Edges(n, s)

\* a faulty variant: the router writes the destination it chose into the state
NodeStep_RouterWrites(n, outcomes) ==
    /\ phase = "running"
    /\ node = n
    /\ \E o \in outcomes :
         /\ effects' = effects \o o.fx
         /\ trace' = Append(trace, n)
         /\ IF o.throws
            THEN /\ phase' = "threw"
                 /\ UNCHANGED <<node, state, prevState, lastUpdate>>
            ELSE /\ prevState' = state
                 /\ lastUpdate' = o.update
                 /\ node' = Edges(n, Merge(state, o.update))
                 /\ state' = [Merge(state, o.update) EXCEPT !.response = node']
                 /\ phase' = IF node' = END THEN "ended"
                            ELSE IF node' = "undefined" THEN "threw"
                            ELSE "running"
    /\ UNCHANGED <<graph, autoApprove, envAtStart, dbLead, reply, decisions>>
    /\ UNCHANGED <<clarVars, retryVars, breakerVars>>

\* One step of the engine: execute node n (one of its possible
\* outcomes), merge the update it returns, follow the edge out of n.
NodeStep(n, outcomes) ==
    /\ phase = "running"
    /\ node = n
    /\ \E o \in outcomes :
         /\ effects' = effects \o o.fx
         /\ trace' = Append(trace, n)
         /\ IF o.throws
            THEN /\ phase' = "threw"
                 /\ UNCHANGED <<node, state, prevState, lastUpdate>>
            ELSE /\ prevState' = state
                 /\ lastUpdate' = o.update
                 /\ state' = Merge(state, o.update)
                 /\ node' = Edges(n, state')
                 /\ phase' = IF node' = END THEN "ended"
                            ELSE IF node' = "undefined" THEN "threw"
                            ELSE "running"
    /\ UNCHANGED <<graph, autoApprove, envAtStart, dbLead, reply, decisions>>
    /\ UNCHANGED <<clarVars, retryVars, breakerVars>>

\* ---- day 1 ----
Day1_RunAgent ==
    /\ graph = "day1"
    /\ \E m \in Messages : Invoke(Day1_InitialState(m))

Day1_ClassifyIntent ==
    /\ graph = "day1"
    /\ NodeStep("classify_intent", Day1_classifyIntent(state))

Day1_QueryLeads ==
    /\ graph = "day1"
    /\ NodeStep("query_leads", Day1_queryLeads(state))

Day1_FormatResponse ==
    /\ graph = "day1"
    /\ NodeStep("format_response", Day1_formatResponse(state))

Day1_HandleUpdate ==
    /\ graph = "day1"
    /\ NodeStep("handle_update", Day1_handleUpdate(state))

Day1_HandleFollowup ==
    /\ graph = "day1"
    /\ NodeStep("handle_followup", Day1_handleFollowup(state))

\* ---- exercise 2 ----
\* runTests: Deno.env.set("AUTO_APPROVE", value) with "", "true" and "false"
\* in turn, each before an invoke
Ex2_RunTests_SetEnv ==
    /\ graph = "ex2"
    /\ phase = "idle"
    /\ \E value \in AutoApproveValues \ {autoApprove} : autoApprove' = value
    /\ UNCHANGED <<graph, envAtStart, dbLead, phase, node, state, prevState,
                   lastUpdate, trace, effects, reply, decisions>>
    /\ UNCHANGED <<clarVars, retryVars, breakerVars>>

Ex2_Invoke ==
    /\ graph = "ex2"
    /\ \E m \in Messages : Invoke(Ex2_InitialState(m))

Ex2_UnderstandRequest ==
    /\ graph = "ex2"
    /\ NodeStep("understand_request", Ex2_understandRequest(state))

Ex2_HandleLookup ==
    /\ graph = "ex2"
    /\ NodeStep("handle_lookup", Ex2_handleLookup(state))

Ex2_HandleUpdate ==
    /\ graph = "ex2"
    /\ NodeStep("handle_update", Ex2_handleUpdate(state))

Ex2_HandleOther ==
    /\ graph = "ex2"
    /\ NodeStep("handle_other", Ex2_handleOther(state))

Ex2_HumanReview ==
    /\ graph = "ex2"
    /\ NodeStep("human_review", Ex2_humanReview(state))

Ex2_ExecuteApprovedUpdate ==
    /\ graph = "ex2"
    /\ NodeStep("execute_approved_update", Ex2_executeApprovedUpdate(state))

Ex2_HandleRejection ==
    /\ graph = "ex2"
    /\ NodeStep("handle_rejection", Ex2_handleRejection(state))

\* ---- exercise 3 ----
\* test: Deno.env.set("AUTO_APPROVE", "true") before its runs
Ex3_Test_SetEnv ==
    /\ graph = "ex3"
    /\ phase = "idle"
    /\ autoApprove # "true"
    /\ autoApprove' = "true"
    /\ UNCHANGED <<graph, envAtStart, dbLead, phase, node, state, prevState,
                   lastUpdate, trace, effects, reply, decisions>>
    /\ UNCHANGED <<clarVars, retryVars, breakerVars>>

Ex3_RunAgent_Invoke ==
    /\ graph = "ex3"
    /\ \E m \in Messages : Invoke(Ex3_InitialState(m))

Ex3_UnderstandRequest ==
    /\ graph = "ex3"
    /\ NodeStep("understand_request", Ex3_understandRequest(state))

Ex3_HandleLookup ==
    /\ graph = "ex3"
    /\ NodeStep("handle_lookup", Ex3_handleLookup(state))

Ex3_HandleFollowup ==
    /\ graph = "ex3"
    /\ NodeStep("handle_followup", Ex3_handleFollowup(state))

Ex3_HandleOther ==
    /\ graph = "ex3"
    /\ NodeStep("handle_other", Ex3_handleOther(state))

Ex3_HumanReview ==
    /\ graph = "ex3"
    /\ NodeStep("human_review", Ex3_humanReview(state))

Ex3_ExecuteEmail ==
    /\ graph = "ex3"
    /\ NodeStep("execute_email", Ex3_executeApprovedEmail(state))

Ex3_HandleRejection ==
    /\ graph = "ex3"
    /\ NodeStep("handle_rejection", Ex3_handleRejection(state))

Ex3_ErrorRecovery ==
    /\ graph = "ex3"
    /\ NodeStep("error_recovery", Ex3_errorRecovery(state))

\* result.response || "No response"
\* a faulty variant: the message is taken from the error field
MessageOf_ErrorText(s) == s.error

\* result.response || "No response"
MessageOf(s) == IF s.response # Null THEN s.response ELSE "No response"

Ex3_RunAgent_Return ==
    /\ graph = "ex3"
    /\ phase = "ended"
    /\ phase' = "replied"
    /\ reply' = [success |-> state.error = Null, message |-> MessageOf(state)]
    /\ UNCHANGED <<graph, autoApprove, envAtStart, dbLead, node, state, prevState, lastUpdate,
                   trace, effects, decisions>>
    /\ UNCHANGED <<clarVars, retryVars, breakerVars>>

\* ---- exercise 4 ----
\* the handler's message branch: 400 when the message is missing or empty,
\* else runAgent(message)
Ex4_Serve_Message ==
    /\ graph = "ex4"
    /\ \E m \in Messages :
         IF m = {}
         THEN /\ phase = "idle"
              /\ phase' = "replied"
              /\ reply' = [status |-> 400, error |-> "Missing 'message'"]
              /\ UNCHANGED <<graph, autoApprove, envAtStart, dbLead, node, state, prevState,
                             lastUpdate, trace, effects, decisions>>
              /\ UNCHANGED <<clarVars, retryVars, breakerVars>>
         ELSE Invoke(Ex4_InitialState(m))

Ex4_UnderstandRequest ==
    /\ graph = "ex4"
    /\ NodeStep("understand_request", Ex4_understandRequest(state))

Ex4_HandleLookup ==
    /\ graph = "ex4"
    /\ NodeStep("handle_lookup", Ex4_handleLookup(state))

Ex4_HandleUpdate ==
    /\ graph = "ex4"
    /\ NodeStep("handle_update", Ex4_handleUpdate(state))

Ex4_HandleFollowup ==
    /\ graph = "ex4"
    /\ NodeStep("handle_followup", Ex4_handleFollowup(state))

Ex4_HandleOther ==
    /\ graph = "ex4"
    /\ NodeStep("handle_other", Ex4_handleOther(state))

Ex4_HumanReview ==
    /\ graph = "ex4"
    /\ NodeStep("human_review", Ex4_humanReview(state))

Ex4_ExecuteApproved ==
    /\ graph = "ex4"
    /\ NodeStep("execute_approved", Ex4_executeApproved(state))

Ex4_HandleRejection ==
    /\ graph = "ex4"
    /\ NodeStep("handle_rejection", Ex4_handleRejection(state))

\* runAgent's response, built from the state app.invoke resolved with (the
\* catch branch when it rejected)
Ex4_RunAgent_Return ==
    /\ graph = "ex4"
    /\ phase \in {"ended", "threw"}
    /\ phase' = "replied"
    /\ reply' =
         IF phase = "threw"
         THEN [success |-> FALSE, message |-> "Agent failed",
               error |-> "exception_message"]
         ELSE [success |-> state.error = Null,
               message |-> MessageOf(state),
               leads |-> state.leads,
               pendingApproval |->
                   IF state.pendingAction # NoObject
                   THEN [actionId |-> state.pendingAction.leadId,
                         type |-> state.pendingAction.type]
                   ELSE NoObject,
               error |-> state.error]
    /\ UNCHANGED <<graph, autoApprove, envAtStart, dbLead, node, state, prevState, lastUpdate,
                   trace, effects, decisions>>
    /\ UNCHANGED <<clarVars, retryVars, breakerVars>>

\* the ids a caller may name in an approve / reject request: the ids of
\* the leads (a pending action is exposed under its leadId)
ActionIds == {Lead(sc).id : sc \in Scores}

\* Whether a run has ended with the action of this id proposed and its
\* approval pending.
AwaitingApproval(actionId) ==
    /\ phase \in {"ended", "replied"}
    /\ state # NoObject
    /\ state.pendingAction # NoObject
    /\ state.pendingAction.leadId = actionId
    /\ state.approvalStatus = "pending"

\* The handler's approve / reject branch: it answers success, whatever the
\* id and whatever was answered before.  Requests are served concurrently
\* with a run, so the branch may be taken in any phase; the model notes
\* with each answer whether the action was awaiting approval then.
Ex4_Serve_Decide ==
    /\ graph = "ex4"
    /\ Len(decisions) < MaxDecisions
    /\ \E action \in {"approve", "reject"}, actionId \in ActionIds :
         decisions' = Append(decisions,
                             [action |-> action, actionId |-> actionId,
                              success |-> TRUE,
                              awaiting |-> AwaitingApproval(actionId)])
    /\ UNCHANGED <<graph, autoApprove, envAtStart, dbLead, phase, node, state, prevState,
                   lastUpdate, trace, effects, reply>>
    /\ UNCHANGED <<clarVars, retryVars, breakerVars>>

(***************************************************************************)
(* withRetry: the retry helper of exercise 3 (options, exponential backoff *)
(* with jitter, a classifier) and of exercise 4 (a count, linear backoff). *)
(*                                                                         *)
(* Math.random() is modelled by the draws k / JitterSteps, k in            *)
(* 0 .. JitterSteps - 1; a delay is kept as the pair of its numerator and  *)
(* its denominator in milliseconds, so that the jitter factor              *)
(* 1 + random * 0.1  stays exact.                                          *)
(***************************************************************************)
\* bounds of the model
MaxRetriesBound == 3
JitterSteps == 2

\* what the wrapped operation may throw: an error with an HTTP status
\* (0: an error that carries no status)
ErrorStatuses == {0, 400, 404, 429, 499, 500}

\* what one invocation of fn gives: its promise resolves, or rejects with an error
Resolved == [ok |-> TRUE]
Rejected(error) == [ok |-> FALSE, error |-> error]

\* a faulty variant: rate limits are not retried either
defaultShouldRetry_NoRateLimit(error) ==
    IF error.status >= 400 /\ error.status < 500 THEN FALSE ELSE TRUE

\* defaultRetryOptions.shouldRetry
defaultShouldRetry(error) ==
    IF error.status >= 400 /\ error.status < 500 /\ error.status # 429
    THEN FALSE
    ELSE TRUE

\* a faulty variant: without a classifier nothing is retried
ShouldRetry_DefaultFalse(opts, error) ==
    CASE opts.shouldRetry = "default" -> defaultShouldRetry(error)
      [] opts.shouldRetry = "always" -> TRUE
      [] OTHER -> FALSE

\* opts.shouldRetry?.(error) ?? true, for the classifiers a caller may pass
ShouldRetry(opts, error) ==
    CASE opts.shouldRetry = "default" -> defaultShouldRetry(error)
      [] opts.shouldRetry = "always" -> TRUE
      [] opts.shouldRetry = "never" -> FALSE
      [] OTHER -> TRUE

\* a faulty variant: the delay does not grow
Pow2_Flat(n) == 1

Pow2(n) == IF n <= 0 THEN 1 ELSE 2 ^ n

\* a faulty variant: the delay is not capped
Ex3_Delay_Uncapped(opts, attempt, k) ==
    [num |-> opts.baseDelayMs * Pow2(attempt - 1) * (10 * JitterSteps + k),
     den |-> 10 * JitterSteps]

\* Math.min(baseDelayMs * 2^(attempt-1) * (1 + random * 0.1), maxDelayMs)
\* with random = k / JitterSteps, as a fraction num / den of milliseconds
Ex3_Delay(opts, attempt, k) ==
    LET den == 10 * JitterSteps
        raw == opts.baseDelayMs * Pow2(attempt - 1) * (den + k)
        cap == opts.maxDelayMs * den
    IN [num |-> IF raw < cap THEN raw ELSE cap, den |-> den]

\* 1000 * attempt
Ex4_Delay(attempt) == [num |-> 1000 * attempt, den |-> 1]

\* a faulty variant: one iteration too many
LoopContinues_OneMore(attempt, maxRetries) == attempt <= maxRetries + 1

\* the loop condition of both helpers
LoopContinues(attempt, maxRetries) == attempt <= maxRetries

\* a faulty variant: no attempt is taken for the last one
Ex3_isLastAttempt_Never(attempt, maxRetries) == FALSE

\* attempt === opts.maxRetries
Ex3_isLastAttempt(attempt, maxRetries) == attempt = maxRetries

RetryOptions ==
    [maxRetries : 0..MaxRetriesBound, baseDelayMs : {1000, 2000},
     maxDelayMs : {3000, 10000}, shouldRetry : {"default", "always", "never", "none"}]

RetryOff ==
    /\ rImpl = "off"
    /\ rOpts = NoObject
    /\ rPc = "off"
    /\ rAttempt = 0
    /\ rCalls = 0
    /\ rLastError = NoObject
    /\ rWaits = <<>>
    /\ rThrown = NoObject
    /\ rOutcomes = <<>>
    /\ rDraws = <<>>

RetryInit ==
    /\ rImpl \in {"ex3", "ex4"}
    /\ \/ /\ rImpl = "ex3"
          /\ rOpts \in RetryOptions
       \/ /\ rImpl = "ex4"
          /\ rOpts \in [maxRetries : 0..MaxRetriesBound]
    /\ rPc = "loop"
    /\ rAttempt = 1
    /\ rCalls = 0
    /\ rLastError = NoObject
    /\ rWaits = <<>>
    /\ rThrown = NoObject
    /\ rOutcomes = <<>>
    /\ rDraws = <<>>

\* fn() is invoked and resolves: withRetry returns its result
Retry_FnResolves ==
    /\ rPc = "loop"
    /\ LoopContinues(rAttempt, rOpts.maxRetries)
    /\ rCalls' = rCalls + 1
    /\ rPc' = "returned"
    /\ rOutcomes' = Append(rOutcomes, Resolved)
    /\ UNCHANGED <<rImpl, rOpts, rAttempt, rLastError, rWaits, rThrown, rDraws>>
    /\ UNCHANGED <<clarVars, crmVars, breakerVars>>

\* exercise 3: fn() is invoked and rejects; the catch branch rethrows, or
\* computes the delay and starts waiting
Ex3_Retry_FnRejects ==
    /\ rImpl = "ex3"
    /\ rPc = "loop"
    /\ LoopContinues(rAttempt, rOpts.maxRetries)
    /\ \E st \in ErrorStatuses :
         LET error == [status |-> st] IN
         /\ rCalls' = rCalls + 1
         /\ rLastError' = error
         /\ rOutcomes' = Append(rOutcomes, Rejected(error))
         /\ IF Ex3_isLastAttempt(rAttempt, rOpts.maxRetries) \/ ~ShouldRetry(rOpts, error)
            THEN /\ rPc' = "threw"
                 /\ rThrown' = error
                 /\ UNCHANGED <<rWaits, rDraws>>
            ELSE /\ rPc' = "wait"
                 /\ \E k \in 0..(JitterSteps - 1) :
                      /\ rWaits' = Append(rWaits, Ex3_Delay(rOpts, rAttempt, k))
                      /\ rDraws' = Append(rDraws, k)
                 /\ UNCHANGED rThrown
    /\ UNCHANGED <<rImpl, rOpts, rAttempt>>
    /\ UNCHANGED <<clarVars, crmVars, breakerVars>>

\* exercise 4: fn() is invoked and rejects; the catch branch waits unless
\* this was the last attempt
Ex4_Retry_FnRejects ==
    /\ rImpl = "ex4"
    /\ rPc = "loop"
    /\ LoopContinues(rAttempt, rOpts.maxRetries)
    /\ \E st \in ErrorStatuses :
         /\ rCalls' = rCalls + 1
         /\ rLastError' = [status |-> st]
         /\ rOutcomes' = Append(rOutcomes, Rejected([status |-> st]))
    /\ IF rAttempt < rOpts.maxRetries
       THEN /\ rPc' = "wait"
            /\ rWaits' = Append(rWaits, Ex4_Delay(rAttempt))
            /\ UNCHANGED rAttempt
       ELSE /\ rPc' = "loop"
            /\ rAttempt' = rAttempt + 1
            /\ UNCHANGED rWaits
    /\ UNCHANGED <<rImpl, rOpts, rThrown, rDraws>>
    /\ UNCHANGED <<clarVars, crmVars, breakerVars>>

\* the timer fires: attempt++ and the loop goes on
Retry_TimerFires ==
    /\ rPc = "wait"
    /\ rPc' = "loop"
    /\ rAttempt' = rAttempt + 1
    /\ UNCHANGED <<rImpl, rOpts, rCalls, rLastError, rWaits, rThrown, rOutcomes, rDraws>>
    /\ UNCHANGED <<clarVars, crmVars, breakerVars>>

\* the loop is over: throw lastError
Retry_ThrowLastError ==
    /\ rPc = "loop"
    /\ ~LoopContinues(rAttempt, rOpts.maxRetries)
    /\ rPc' = "threw"
    /\ rThrown' = rLastError
    /\ UNCHANGED <<rImpl, rOpts, rAttempt, rCalls, rLastError, rWaits, rOutcomes,
                   rDraws>>
    /\ UNCHANGED <<clarVars, crmVars, breakerVars>>

(***************************************************************************)
(* CircuitBreaker: one breaker shared by the runs that call a dependency.  *)
(* execute checks isOpen synchronously, then awaits fn; reset or           *)
(* recordFailure runs when fn settles, so calls of several runs overlap.   *)
(***************************************************************************)
\* bounds of the model
MaxRuns == 2
MaxTicks == 6
TickMs == 30000

\* private readonly threshold = 5
threshold == 5
\* private readonly resetTimeout = 60000
resetTimeout == 60000

Runs == 1..MaxRuns

\* this.lastFailure?.getTime() || 0
Breaker_getTime(lastFailure) == IF lastFailure = NoObject THEN 0 ELSE lastFailure.time

\* a faulty variant: the breaker trips one failure late
Breaker_isOpen_Late ==
    IF bFailures <= threshold THEN FALSE
    ELSE bNow - Breaker_getTime(bLastFailure) < resetTimeout

Breaker_isOpen ==
    IF bFailures < threshold THEN FALSE
    ELSE bNow - Breaker_getTime(bLastFailure) < resetTimeout

Breaker_recordFailure ==
    [failures |-> bFailures + 1, lastFailure |-> [time |-> bNow]]

\* a faulty variant: a success takes one failure off the count
Breaker_reset_Decrement ==
    [failures |-> IF bFailures > 0 THEN bFailures - 1 ELSE 0, lastFailure |-> NoObject]

Breaker_reset ==
    [failures |-> 0, lastFailure |-> NoObject]

\* no call of execute made yet by a run
NoCall == [pc |-> "idle", invoked |-> FALSE, tripped |-> FALSE, cooling |-> FALSE]

BreakerOff ==
    /\ bFailures = 0
    /\ bLastFailure = NoObject
    /\ bNow = 0
    /\ bRuns = <<>>
    /\ bStreak = 0
    /\ bLastFailAt = 0

\* new CircuitBreaker()
BreakerInit ==
    /\ bFailures = 0
    /\ bLastFailure = NoObject
    /\ bNow = TickMs
    /\ bRuns = [r \in Runs |-> NoCall]
    /\ bStreak = 0
    /\ bLastFailAt = 0

\* a run calls execute(fn): the call is refused when the breaker is open,
\* otherwise fn is invoked.  The call notes what had happened when it
\* started: threshold operations failed in a row (tripped), the last of
\* them less than resetTimeout ago (cooling).
Breaker_Execute(r) ==
    /\ bRuns[r].pc # "inflight"
    /\ LET open == Breaker_isOpen
           call == [pc |-> IF open THEN "rejected" ELSE "inflight",
                    invoked |-> ~open,
                    tripped |-> bStreak >= threshold,
                    cooling |-> bStreak > 0 /\ bNow - bLastFailAt < resetTimeout]
       IN bRuns' = [bRuns EXCEPT ![r] = call]
    /\ UNCHANGED <<bFailures, bLastFailure, bNow, bStreak, bLastFailAt>>
    /\ UNCHANGED <<clarVars, crmVars, retryVars>>

\* fn resolves: this.reset(); return result
Breaker_FnResolves(r) ==
    /\ bRuns[r].pc = "inflight"
    /\ bFailures' = Breaker_reset.failures
    /\ bLastFailure' = Breaker_reset.lastFailure
    /\ bRuns' = [bRuns EXCEPT ![r].pc = "returned"]
    /\ bStreak' = 0
    /\ UNCHANGED <<bNow, bLastFailAt>>
    /\ UNCHANGED <<clarVars, crmVars, retryVars>>

\* fn rejects: this.recordFailure(); throw error
Breaker_FnRejects(r) ==
    /\ bRuns[r].pc = "inflight"
    /\ bFailures' = Breaker_recordFailure.failures
    /\ bLastFailure' = Breaker_recordFailure.lastFailure
    /\ bRuns' = [bRuns EXCEPT ![r].pc = "threw"]
    /\ bStreak' = bStreak + 1
    /\ bLastFailAt' = bNow
    /\ UNCHANGED bNow
    /\ UNCHANGED <<clarVars, crmVars, retryVars>>

\* time passes
Breaker_Tick ==
    /\ bNow < MaxTicks * TickMs
    /\ bNow' = bNow + TickMs
    /\ UNCHANGED <<bFailures, bLastFailure, bRuns, bStreak, bLastFailAt>>
    /\ UNCHANGED <<clarVars, crmVars, retryVars>>

BreakerSpecInit ==
    /\ BreakerInit
    /\ ClarOff
    /\ CrmOff
    /\ RetryOff

BreakerNext ==
    \/ \E r \in Runs : Breaker_Execute(r)
    \/ \E r \in Runs : Breaker_FnResolves(r)
    \/ \E r \in Runs : Breaker_FnRejects(r)
    \/ Breaker_Tick

BreakerSpec == BreakerSpecInit /\ [][BreakerNext]_vars

RetrySpecInit ==
    /\ RetryInit
    /\ ClarOff
    /\ CrmOff
    /\ BreakerOff

RetryNext ==
    \/ Retry_FnResolves
    \/ Ex3_Retry_FnRejects
    \/ Ex4_Retry_FnRejects
    \/ Retry_TimerFires
    \/ Retry_ThrowLastError

RetrySpec == RetrySpecInit /\ [][RetryNext]_vars

Init ==
    /\ CrmInit
    /\ ClarOff
    /\ RetryOff
    /\ BreakerOff

Next ==
    \/ Day1_RunAgent
    \/ Day1_ClassifyIntent
    \/ Day1_QueryLeads
    \/ Day1_FormatResponse
    \/ Day1_HandleUpdate
    \/ Day1_HandleFollowup
    \/ Ex2_RunTests_SetEnv
    \/ Ex2_Invoke
    \/ Ex2_UnderstandRequest
    \/ Ex2_HandleLookup
    \/ Ex2_HandleUpdate
    \/ Ex2_HandleOther
    \/ Ex2_HumanReview
    \/ Ex2_ExecuteApprovedUpdate
    \/ Ex2_HandleRejection
    \/ Ex3_Test_SetEnv
    \/ Ex3_RunAgent_Invoke
    \/ Ex3_UnderstandRequest
    \/ Ex3_HandleLookup
    \/ Ex3_HandleFollowup
    \/ Ex3_HandleOther
    \/ Ex3_HumanReview
    \/ Ex3_ExecuteEmail
    \/ Ex3_HandleRejection
    \/ Ex3_ErrorRecovery
    \/ Ex3_RunAgent_Return
    \/ Ex4_Serve_Message
    \/ Ex4_UnderstandRequest
    \/ Ex4_HandleLookup
    \/ Ex4_HandleUpdate
    \/ Ex4_HandleFollowup
    \/ Ex4_HandleOther
    \/ Ex4_HumanReview
    \/ Ex4_ExecuteApproved
    \/ Ex4_HandleRejection
    \/ Ex4_RunAgent_Return
    \/ Ex4_Serve_Decide

Spec == Init /\ [][Next]_vars

ClarSpecInit ==
    /\ ClarInit
    /\ CrmOff
    /\ RetryOff
    /\ BreakerOff

ClarNext ==
    \/ Ex1_AnalyzeRequest
    \/ Ex1_RequestClarification
    \/ Buggy_AnalyzeRequest
    \/ Buggy_RequestClarification

ClarSpec == ClarSpecInit /\ [][ClarNext]_vars

\* The engine keeps running a run that has a next node.
ClarFairSpec == ClarSpec /\ WF_vars(ClarNext)

\* A run of any of the graphs: one of the agent graphs or one of the
\* clarification graphs.
GraphsSpec == (Init \/ ClarSpecInit) /\ [][Next \/ ClarNext]_vars

(***************************************************************************)
(* Properties.                                                             *)
(***************************************************************************)
UpdatedLeads == {i \in 1..Len(effects) : effects[i].call = "leads.update"}
EmailsSent == {i \in 1..Len(effects) : effects[i].call = "email.send"}
Executed(n) == n \in Range(trace)
RunOver == phase \in {"ended", "replied"} /\ state # NoObject

\* An effect that the approval rule gates: an email, or an update of a lead
\* whose score is above the threshold.
RequiresApproval(e) ==
    \/ e.call = "email.send"
    \/ e.call = "leads.update" /\ e.score > HIGH_VALUE_THRESHOLD

\* C1: in every run of the approval graphs, an email send or an update of a
\* lead whose score is above the threshold is performed only in a state whose
\* approvalStatus is "approved" (never with pending, rejected or null), and
\* only after human_review has executed in that run.
C1_GatedEffectsAreApproved ==
    \A i \in 1..Len(effects) :
        RequiresApproval(effects[i]) =>
            /\ effects[i].approvalStatus = "approved"
            /\ Executed("human_review")

C1_Witness ==
    /\ RunOver
    /\ \E i \in EmailsSent : effects[i].ok /\ effects[i].approvalStatus = "approved"
    /\ \E i \in UpdatedLeads : effects[i].score > HIGH_VALUE_THRESHOLD

\* C2: the merged state keeps the previous value of each field absent from
\* the partial update a node returned and takes exactly the update's value
\* for each field present in it, null included.
C2_MergeTakesUpdate ==
    (prevState # NoObject) =>
        \A f \in DOMAIN state :
            state[f] = IF f \in DOMAIN lastUpdate THEN lastUpdate[f] ELSE prevState[f]

\* the runs C3 is about: the fixed graph from the initial state of the tests
Ex1_TestRun == cGraph = "fixed" /\ cState.maxAttempts = TestMaxAttempts

\* C3: from the initial state of the tests (attempts = 0, maxAttempts = 3)
\* and for every message length, a run of the fixed clarification graph
\* never executes more than 3 nodes and reaches END.
C3_FixedGraphEnds ==
    /\ [](Ex1_TestRun => Len(cTrace) <= 3)
    /\ (Ex1_TestRun ~> (cNode = END))

C3_Witness ==
    /\ Ex1_TestRun
    /\ cNode = END
    /\ cTrace = <<"analyze_request", "request_clarification", "analyze_request">>

\* C4: a run whose routing cycles between two nodes is stopped by a step
\* budget of 5: it never executes more than 5 nodes, and once it has
\* executed 5 it has ended.
C4_StepBudgetStops ==
    /\ Len(cTrace) <= 5
    /\ (Len(cTrace) = 5 => cNode = END)

\* C5: for an action awaiting approval, one decide request succeeds and
\* every later request for the same id is refused.
C5_DecideSucceedsOnce ==
    \A i, j \in 1..Len(decisions) :
        (i < j /\ decisions[i].awaiting /\ decisions[i].success
           /\ decisions[j].actionId = decisions[i].actionId)
        => ~decisions[j].success

\* C6: once an approve request for an action awaiting approval has been
\* answered, the workflow has resumed at the node after approval: the
\* proposed update or email has been executed.
C6_ApproveResumes ==
    \A i \in 1..Len(decisions) :
        (decisions[i].action = "approve" /\ decisions[i].awaiting /\ decisions[i].success)
        => /\ Executed("execute_approved")
           /\ \E k \in 1..Len(effects) : RequiresApproval(effects[k])

ActionTypes == {"send_email", "update_lead", "query"}

\* C7: needsApproval is true exactly for send_email and for update_lead of
\* a lead whose score is strictly above the threshold; handle_update of a
\* lead with score <= threshold never leaves the approval pending nor leads
\* to human_review, and its confirmation comes with the update made in that
\* node; handle_update of a lead above the threshold makes no update itself.
C7_ApprovalRule ==
    /\ \A t \in ActionTypes, l \in {NoObject} \cup {Lead(sc) : sc \in Scores} :
          needsApproval(t, l) <=>
             \/ t = "send_email"
             \/ t = "update_lead" /\ l # NoObject /\ l.score > HIGH_VALUE_THRESHOLD
    /\ (graph \in {"ex2", "ex4"} /\ Executed("handle_update")) =>
          IF dbLead.score <= HIGH_VALUE_THRESHOLD
          THEN /\ ~Executed("human_review")
               /\ state.approvalStatus # "pending"
               /\ (Last(trace) = "handle_update" /\ state.response = "updated") =>
                     \E i \in UpdatedLeads : effects[i].node = "handle_update"
          ELSE \A i \in UpdatedLeads : effects[i].node # "handle_update"

C7_Witness ==
    /\ graph = "ex2"
    /\ dbLead.score = HIGH_VALUE_THRESHOLD
    /\ phase = "ended"
    /\ trace = <<"understand_request", "handle_update">>
    /\ state.response = "updated"
    /\ \E i \in UpdatedLeads : effects[i].node = "handle_update" /\ effects[i].ok

\* a state of a run in which the update of a lead was proposed and rejected
UpdateRejected ==
    /\ state # NoObject
    /\ "pendingAction" \in DOMAIN state
    /\ state.pendingAction # NoObject
    /\ state.pendingAction.type = "update_lead"
    /\ state.approvalStatus = "rejected"

\* C8: when the decision for a pending lead update is rejected, the next
\* node is handle_rejection, the run ends there with the rejection message,
\* and no update of the leads table is made in that run.
C8_RejectedUpdateNotExecuted ==
    UpdateRejected =>
        /\ UpdatedLeads = {}
        /\ phase = "running" => node = "handle_rejection"
        /\ RunOver => /\ Last(trace) = "handle_rejection"
                      /\ state.response \in {"update_rejected", "action_rejected"}

C8_Witness ==
    /\ graph = "ex2"
    /\ UpdateRejected
    /\ phase = "ended"
    /\ Last(trace) = "handle_rejection"
    /\ state.response = "update_rejected"

\* C9: once execute_approved or handle_rejection has run and asked to clear
\* the pending action, the state that reaches END has pendingAction = null
\* and approvalStatus = null, and runAgent's response carries no
\* pendingApproval.
C9_PendingActionCleared ==
    (/\ graph = "ex4"
     /\ RunOver
     /\ Last(trace) \in {"execute_approved", "handle_rejection"}
     /\ "pendingAction" \in DOMAIN lastUpdate)
    => /\ state.pendingAction = NoObject
       /\ state.approvalStatus = Null
       /\ phase = "replied" => reply.pendingApproval = NoObject

\* C10: one call of withRetry with maxRetries = N invokes the operation at
\* most N times, and, when N >= 1, at least once before it returns or
\* throws, whatever the errors and the classifier.
C10_InvocationsBounded ==
    /\ rCalls <= rOpts.maxRetries
    /\ (rPc \in {"returned", "threw"} /\ rOpts.maxRetries >= 1) => rCalls >= 1

C10_Witness ==
    /\ rPc = "threw"
    /\ rOpts.maxRetries >= 2
    /\ rCalls = rOpts.maxRetries

(***************************************************************************)
(* Properties of withRetry.                                                *)
(***************************************************************************)
Min(a, b) == IF a < b THEN a ELSE b

RECURSIVE SumNum(_)
SumNum(waits) == IF waits = <<>> THEN 0 ELSE Head(waits).num + SumNum(Tail(waits))

Ex3Retry == rImpl = "ex3"
RetryOver == rPc \in {"returned", "threw"}

\* C11: in exercise 3's withRetry, every wait between two attempts is at
\* most maxDelayMs, whatever the attempt number, the base delay and the
\* jitter draw.
C11_WaitAtMostMaxDelay ==
    Ex3Retry =>
        \A i \in 1..Len(rWaits) : rWaits[i].num <= rOpts.maxDelayMs * rWaits[i].den

C11_Witness ==
    /\ Ex3Retry
    /\ \E i \in 1..Len(rWaits) :
         /\ rDraws[i] > 0
         /\ rWaits[i].num = rOpts.maxDelayMs * rWaits[i].den
         /\ rOpts.baseDelayMs * (2 ^ (i - 1)) > rOpts.maxDelayMs

\* C12 as stated: the wait after failed attempt n is
\* min(max_delay, base_delay * 2^(n-1)) * (1 + r * 0.1), r the draw made:
\* the exponential term is capped, then multiplied by the jitter factor.
C12_CapThenJitter ==
    Ex3Retry =>
        \A i \in 1..Len(rWaits) :
            rWaits[i].num =
                Min(rOpts.maxDelayMs, rOpts.baseDelayMs * (2 ^ (i - 1)))
                    * (rWaits[i].den + rDraws[i])

\* C12 amended: in exercise 3's withRetry the wait after failed attempt n
\* is min(max_delay, base_delay * 2^(n-1) * (1 + r * 0.1)), r the draw made:
\* the jitter factor multiplies the exponential term and the cap comes last;
\* the deployed agent's withRetry waits 1000 * n milliseconds.
C12_JitterThenCap ==
    \A i \in 1..Len(rWaits) :
        IF Ex3Retry
        THEN rWaits[i].num =
                Min(rOpts.maxDelayMs * rWaits[i].den,
                    rOpts.baseDelayMs * (2 ^ (i - 1)) * (rWaits[i].den + rDraws[i]))
        ELSE rWaits[i].num = 1000 * i /\ rWaits[i].den = 1

C12_Witness ==
    /\ Ex3Retry
    /\ Len(rWaits) = 2
    /\ rDraws = <<1, 1>>
    /\ rWaits[1].num < rOpts.maxDelayMs * rWaits[1].den
    /\ rWaits[2].num = rOpts.maxDelayMs * rWaits[2].den

\* C13: in one withRetry call a wait happens only between a failed attempt
\* and the next attempt, never after the final attempt nor after an error
\* classified as non-retryable: when the call is over the number of waits
\* is the number of invocations minus one, and (exercise 3) the total time
\* waited is at most maxRetries * maxDelayMs.
C13_WaitsBetweenAttempts ==
    /\ Len(rWaits) <= rCalls
    /\ rPc = "wait" =>
          /\ Len(rWaits) = rCalls
          /\ ~Last(rOutcomes).ok
          /\ rAttempt + 1 <= rOpts.maxRetries
          /\ Ex3Retry => rOpts.shouldRetry \in {"default", "always", "none"}
          /\ (Ex3Retry /\ rOpts.shouldRetry = "default") =>
                ~(rLastError.status \in 400..499 /\ rLastError.status # 429)
    /\ (RetryOver /\ rCalls >= 1) => Len(rWaits) = rCalls - 1
    /\ Ex3Retry =>
          SumNum(rWaits) <= rOpts.maxRetries * rOpts.maxDelayMs * 10 * JitterSteps

C13_Witness ==
    /\ Ex3Retry
    /\ rPc = "threw"
    /\ rCalls = 3
    /\ Len(rWaits) = 2
    /\ rOpts.maxRetries = 3

\* an error the default classifier takes for terminal
ClientError(error) == error.status \in 400..499 /\ error.status # 429

\* the first k invocations all failed, with errors that the call's
\* classifier (if it has one) lets retry
FailedRetryably(k) ==
    /\ Len(rOutcomes) >= k
    /\ \A i \in 1..k :
         /\ ~rOutcomes[i].ok
         /\ Ex3Retry =>
               \/ rOpts.shouldRetry \in {"always", "none"}
               \/ rOpts.shouldRetry = "default" /\ ~ClientError(rOutcomes[i].error)

\* C14: with maxRetries = 3, after one or two invocations that failed with
\* retryable errors withRetry has not given up, and when the third
\* invocation succeeds it returns after exactly 3 invocations and exactly 2
\* waits.
C14_ThirdAttemptSucceeds ==
    rOpts # NoObject /\ rOpts.maxRetries = 3 =>
        /\ \A k \in 1..2 :
              (FailedRetryably(k) /\ Len(rOutcomes) = k) =>
                  /\ rPc \in {"wait", "loop"}
                  /\ rCalls = k
        /\ (FailedRetryably(2) /\ Len(rOutcomes) >= 3 /\ rOutcomes[3].ok) =>
              /\ rPc = "returned"
              /\ rCalls = 3
              /\ Len(rWaits) = 2

C14_Witness ==
    /\ Ex3Retry
    /\ rOpts.maxRetries = 3
    /\ rOpts.shouldRetry = "none"
    /\ FailedRetryably(2)
    /\ Len(rOutcomes) = 3
    /\ rOutcomes[3].ok
    /\ rPc = "returned"

C16_ErrorCarriesAttempts ==
    (rPc = "threw" /\ rCalls >= 1) =>
        /\ rThrown = Last(rOutcomes).error
        /\ "attempts" \in DOMAIN rThrown
        /\ rThrown.attempts = rCalls

(***************************************************************************)
(* Properties of the CircuitBreaker.                                       *)
(***************************************************************************)
\* C17: a call of execute that starts after threshold operations failed in
\* a row, less than resetTimeout after the last of these failures, is
\* refused at once and its operation is never invoked.
C17_OpenBreakerRefuses ==
    \A r \in DOMAIN bRuns :
        (bRuns[r].pc # "idle" /\ bRuns[r].tripped /\ bRuns[r].cooling) =>
            /\ bRuns[r].pc = "rejected"
            /\ ~bRuns[r].invoked

C17_Witness ==
    /\ bStreak = threshold
    /\ bNow - bLastFailAt < resetTimeout
    /\ \E r \in DOMAIN bRuns :
         bRuns[r].pc = "rejected" /\ bRuns[r].tripped /\ bRuns[r].cooling

\* C18: the failure count is the number of operations that failed since the
\* last success: a success brings it to zero (also the success of a trial
\* call after the cooldown), and the breaker is open only after threshold
\* new failures in a row.
C18_SuccessResetsCount ==
    /\ bFailures = bStreak
    /\ bStreak = 0 => (bFailures = 0 /\ bLastFailure = NoObject)
    /\ (bRuns # <<>> /\ Breaker_isOpen) => bStreak >= threshold

C18_Witness ==
    /\ bFailures = 0
    /\ \E r \in DOMAIN bRuns :
         bRuns[r].pc = "returned" /\ bRuns[r].tripped /\ ~bRuns[r].cooling

\* C19: once the cooldown has elapsed on an open breaker, one trial call
\* is admitted and the others are refused while it is in flight: at any
\* time at most one call admitted on a tripped breaker is in flight.
C19_OneTrialCall ==
    Cardinality({r \in DOMAIN bRuns : bRuns[r].pc = "inflight" /\ bRuns[r].tripped}) <= 1

(***************************************************************************)
(* Properties of the resilient graph.                                      *)
(***************************************************************************)
\* C20: in the resilient graph, after a node returned an update with error
\* set, the next node is error_recovery.
C20_ErrorRoutesToRecovery ==
    (/\ graph = "ex3"
     /\ phase \in {"running", "ended"}
     /\ trace # <<>>
     /\ "error" \in DOMAIN lastUpdate
     /\ lastUpdate.error # Null)
    => node = "error_recovery"

\* a reply of runAgent: the graph ran and the caller has its answer
RunAgentReplied == phase = "replied" /\ trace # <<>>

C22_OneTerminalMarker ==
    RunOver => ~(state.response # Null /\ state.error # Null)

\* C23: once error_recovery has executed, the state that reaches END has
\* error = null and errorDetails = null, and runAgent reports success.
C23_RecoveryClearsError ==
    (graph = "ex3" /\ Executed("error_recovery") /\ RunOver) =>
        /\ state.error = Null
        /\ state.errorDetails = NoObject
        /\ phase = "replied" => reply.success

\* a run whose request was classified as a lookup
LookupRun ==
    /\ graph \in {"ex2", "ex3", "ex4"}
    /\ state # NoObject
    /\ TypeOf(state) = "lookup"

\* C24: after classification a lookup run executes handle_lookup and nothing
\* else (no human_review, no execute node, no handle_rejection), it calls no
\* collaborator that changes anything, pendingAction stays null throughout,
\* and the run ends after handle_lookup with a response.
C24_LookupRunsOnlyLookup ==
    LookupRun =>
        /\ trace \in {<<"understand_request">>,
                      <<"understand_request", "handle_lookup">>}
        /\ state.pendingAction = NoObject
        /\ effects = <<>>
        /\ phase = "running" => node = "handle_lookup"
        /\ RunOver => /\ Last(trace) = "handle_lookup"
                      /\ state.response # Null

C24_Witness ==
    /\ LookupRun
    /\ graph = "ex4"
    /\ state.intent.target = Null
    /\ RunOver
    /\ trace = <<"understand_request", "handle_lookup">>
    /\ state.leads # <<>>
    /\ state.error = Null

\* C25: in every state of a run of the fixed clarification graph, which
\* starts with attempts = 0, attempts is at most maxAttempts.
C25_AttemptsWithinMax ==
    cGraph = "fixed" => cState.attempts <= cState.maxAttempts

C25_Witness ==
    /\ cGraph = "fixed"
    /\ cNode = END
    /\ cTrace = <<"analyze_request", "request_clarification", "analyze_request">>
    /\ cState.attempts = cState.maxAttempts
    /\ cState.attempts > 0

\* no node identifier appears twice in the sequence of executions
NoRepeat(executions) ==
    \A i, j \in 1..Len(executions) : executions[i] = executions[j] => i = j
\* how many times node n appears in the sequence of executions
Count(n, executions) == Cardinality({i \in 1..Len(executions) : executions[i] = n})

\* C26 as stated: within one run no node is executed twice.
C26_NoNodeTwice ==
    /\ NoRepeat(trace)
    /\ cGraph = "fixed" => NoRepeat(cTrace)

\* C26, amended: a run of an agent graph executes no node twice; a run of
\* the fixed clarification graph follows the edge request_clarification ->
\* analyze_request, so it executes analyze_request at most twice and
\* request_clarification at most once.
C26_RepeatsOnlyThroughTheCycle ==
    /\ NoRepeat(trace)
    /\ cGraph = "fixed" =>
          /\ Count("analyze_request", cTrace) <= 2
          /\ Count("request_clarification", cTrace) <= 1

C26_Witness ==
    /\ cGraph = "fixed"
    /\ cNode = END
    /\ Count("analyze_request", cTrace) = 2
    /\ Count("request_clarification", cTrace) = 1

\* the decision human_review takes when AUTO_APPROVE has the value env
DecisionUnder(env) ==
    CASE env = "true" -> "approved"
      [] env = "false" -> "rejected"
      [] OTHER -> "pending"

\* C27: the approval outcome of a run (approved, rejected, left pending)
\* depends only on the run's own input and the replies it got: it is the
\* outcome the run has in the process as it started, whatever another
\* caller has written to process-wide state since.
C27_ApprovalIgnoresProcessState ==
    (phase \in {"running", "ended"} /\ trace # <<>>
        /\ Last(trace) = "human_review") =>
        state.approvalStatus = DecisionUnder(envAtStart)

\* a node has just executed and its edge has been followed
JustRouted == phase \in {"running", "ended"} /\ trace # <<>>

RouterInputs ==
    [intent : Intents \cup Day1_Intents \cup {NoObject},
     error : {Null, "failed"},
     approvalStatus : {Null, "pending", "approved", "rejected"}]

\* the destinations of a destination map
Destinations(map) == {map[key] : key \in DOMAIN map}

\* the nodes registered in the graph of the run
Nodes ==
    CASE graph = "day1" -> Day1_Graph.nodes
      [] graph = "ex2" -> Ex2_Graph.nodes
      [] graph = "ex3" -> Ex3_Graph.nodes
      [] graph = "ex4" -> Ex4_Graph.nodes
      [] OTHER -> {}

\* for each conditional edge of the graph of this process: every value the
\* router returns is a key of the destination map, and every destination
\* is a registered node or END
EdgesAreMapped ==
    CASE graph = "day1" ->
           /\ \A s \in RouterInputs :
                 /\ Day1_routeIntent(s) \in DOMAIN Day1_Graph.maps.classify_intent
                 /\ Day1_routeAfterQuery(s) \in DOMAIN Day1_Graph.maps.query_leads
           /\ Destinations(Day1_Graph.maps.classify_intent)
                 \cup Destinations(Day1_Graph.maps.query_leads)
                 \subseteq Day1_Graph.nodes \cup {END}
      [] graph = "ex2" ->
           /\ \A s \in RouterInputs :
                 /\ Ex2_routeByIntent(s) \in DOMAIN Ex2_Graph.maps.understand_request
                 /\ Ex2_routeAfterUpdate(s) \in DOMAIN Ex2_Graph.maps.handle_update
                 /\ Ex2_routeAfterReview(s) \in DOMAIN Ex2_Graph.maps.human_review
           /\ Destinations(Ex2_Graph.maps.understand_request)
                 \cup Destinations(Ex2_Graph.maps.handle_update)
                 \cup Destinations(Ex2_Graph.maps.human_review)
                 \subseteq Ex2_Graph.nodes \cup {END}
      [] graph = "ex3" ->
           /\ \A s \in RouterInputs :
                 /\ Ex3_routeByIntent(s) \in DOMAIN Ex3_Graph.maps.understand_request
                 /\ Ex3_routeAfterFollowup(s) \in DOMAIN Ex3_Graph.maps.handle_followup
                 /\ Ex3_routeAfterReview(s) \in DOMAIN Ex3_Graph.maps.human_review
           /\ Destinations(Ex3_Graph.maps.understand_request)
                 \cup Destinations(Ex3_Graph.maps.handle_followup)
                 \cup Destinations(Ex3_Graph.maps.human_review)
                 \subseteq Ex3_Graph.nodes \cup {END}
      [] graph = "ex4" ->
           /\ \A s \in RouterInputs :
                 /\ Ex4_routeByIntent(s) \in DOMAIN Ex4_Graph.maps.understand_request
                 /\ Ex4_routeAfterAction(s) \in DOMAIN Ex4_Graph.maps.handle_update
                 /\ Ex4_routeAfterAction(s) \in DOMAIN Ex4_Graph.maps.handle_followup
                 /\ Ex4_routeAfterReview(s) \in DOMAIN Ex4_Graph.maps.human_review
           /\ Destinations(Ex4_Graph.maps.understand_request)
                 \cup Destinations(Ex4_Graph.maps.handle_update)
                 \cup Destinations(Ex4_Graph.maps.handle_followup)
                 \cup Destinations(Ex4_Graph.maps.human_review)
                 \subseteq Ex4_Graph.nodes \cup {END}

\* C29: for every conditional edge of every graph, each value its router
\* returns, for any state (intent null or not, error set or not), is a key
\* of the edge's destination map, and each destination of the map is a
\* registered node or END. The graph is built before any run, so this is
\* evaluated for the process that has not started a run yet; in a run the
\* next node is then always a registered node or END.
C29_RouterOutputsAreMapped ==
    /\ phase = "idle" => EdgesAreMapped
    /\ phase \in {"running", "ended"} => node \in Nodes \cup {END}

C29_Witness ==
    /\ graph = "ex4"
    /\ phase = "ended"
    /\ trace = <<"understand_request">>
    /\ state.intent = NoObject
    /\ state.error # Null
    /\ node = END

\* C30: in the Day 1 starter graph format_response executes only right
\* after query_leads has executed in the same run, and never when
\* query_leads returned an error.
C30_FormatOnlyAfterGoodQuery ==
    graph = "day1" =>
        /\ (phase = "running" /\ node = "format_response") =>
              /\ trace = <<"classify_intent", "query_leads">>
              /\ state.error = Null
        /\ Executed("format_response") =>
              /\ trace = <<"classify_intent", "query_leads", "format_response">>
              /\ state.error = Null

C30_Witness ==
    /\ graph = "day1"
    /\ phase = "ended"
    /\ trace = <<"classify_intent", "query_leads", "format_response">>
    /\ state.leads # <<>>
    /\ state.response = "lead_details"

\* a run of the buggy graph on a message shorter than 20 characters
BuggyShortRun == cGraph = "buggy" /\ cState.userMessage < ShortMessageLimit

\* C31: for a message shorter than 20 characters the buggy graph never
\* reaches END: analyze_request and request_clarification alternate, after
\* the first analysis needsMoreInfo is true and stays true, and attempts is
\* the number of analyses so far, one more with every round.
C31_BuggyGraphLoops ==
    BuggyShortRun =>
        /\ cNode # END
        /\ \A i \in 1..Len(cTrace) :
              cTrace[i] = IF i % 2 = 1 THEN "analyze_request"
                          ELSE "request_clarification"
        /\ cNode = IF Len(cTrace) % 2 = 0 THEN "analyze_request"
                   ELSE "request_clarification"
        /\ cTrace # <<>> => cState.needsMoreInfo
        /\ cState.attempts = (Len(cTrace) + 1) \div 2

C31_Witness ==
    /\ BuggyShortRun
    /\ Len(cTrace) = 7
    /\ cState.attempts = 4
    /\ cNode = "request_clarification"

\* C32: for a message shorter than 20 characters, from attempts = 0 and
\* maxAttempts = 3, a run of the fixed clarification graph that has ended
\* executed request_clarification exactly once and has an error recorded
\* in its state.
C32_OneClarificationThenError ==
    (Ex1_TestRun /\ cState.userMessage < ShortMessageLimit /\ cNode = END) =>
        /\ Count("request_clarification", cTrace) = 1
        /\ cState.error # Null

\* C33: a run that reaches END has a non-null, non-empty response: in the
\* Day 1 starter graph whatever the classification gave, and in the fixed
\* clarification graph for every message and every maxAttempts.
C33_EndedRunHasResponse ==
    /\ (graph = "day1" /\ RunOver) => state.response \notin {Null, ""}
    /\ (cGraph = "fixed" /\ cNode = END) => cState.response \notin {Null, ""}

\* the updates of the leads table that the storage collaborator refused
FailedUpdates == {i \in UpdatedLeads : ~effects[i].ok}

\* C34: whenever an update of the leads table fails, the run ends with
\* error set in state and a response that is not a success confirmation.
C34_FailedUpdateIsReported ==
    (RunOver /\ FailedUpdates # {}) =>
        /\ state.error # Null
        /\ state.response \notin {"updated", "email_sent"}

\* the records written to the interactions log
LoggedInteractions ==
    {i \in 1..Len(effects) : effects[i].call = "interactions.insert"}

\* the run took an approval decision: human_review left approved or rejected
DecisionTaken ==
    /\ Executed("human_review")
    /\ \/ Executed("handle_rejection")
       \/ Executed("execute_approved")
       \/ Executed("execute_approved_update")
       \/ Executed("execute_email")

\* C35: every approval decision taken in a run, approved or rejected, is
\* recorded in the interactions log before the run ends.
C35_DecisionsAreLogged ==
    (RunOver /\ DecisionTaken) => LoggedInteractions # {}

\* ---- C36 ----
\* texts that originate from an internal error: the message of a caught
\* exception, the message of a storage error, the error body of a failed
\* email-service reply
InternalErrorTexts ==
    {"exception_message", "storage_error_message", "email_service_error"}

\* the internal text a response interpolates: executeApproved builds the
\* response of a failed send as "Failed: " followed by result.error
EmbeddedErrorTexts(message) ==
    IF graph = "ex4" /\ message = "email_failed"
    THEN {"email_service_error"}
    ELSE {}

\* C36: no text originating from an internal error appears in the message
\* or in the error field of the reply returned to the caller; a failed run
\* returns only fixed user-safe text.
C36_ReplyHidesInternalErrors ==
    RunAgentReplied =>
        /\ reply.message \notin InternalErrorTexts
        /\ EmbeddedErrorTexts(reply.message) = {}
        /\ "error" \in DOMAIN reply => reply.error \notin InternalErrorTexts

\* ---- C37 ----
\* the fields the last update tried to null although they held a value
NulledByUpdate ==
    {f \in DOMAIN lastUpdate \cap DOMAIN prevState :
        IsNullish(f, lastUpdate[f]) /\ ~IsNullish(f, prevState[f])}

ApprovalRun == graph \in {"ex2", "ex3", "ex4"} /\ state # NoObject

\* C38: in every reachable state of an approval graph started from its
\* initial state, approvalStatus is non-null only if pendingAction is
\* non-null; in particular a run that ends with approvalStatus = "pending"
\* carries the proposed action.
C38_StatusImpliesPendingAction ==
    ApprovalRun =>
        (state.approvalStatus # Null => state.pendingAction # NoObject)

C38_Witness ==
    /\ ApprovalRun
    /\ RunOver
    /\ state.approvalStatus = "pending"
    /\ state.pendingAction # NoObject
    /\ Executed("human_review")

\* ---- C39 ----
\* the nodes that carry out a decision: the execute node of each approval
\* graph, and handle_rejection
OutcomeNodes ==
    {"execute_approved", "execute_approved_update", "execute_email", "handle_rejection"}

\* the positions of the run at which a decision was carried out
OutcomeSteps == {i \in 1..Len(trace) : trace[i] \in OutcomeNodes}

\* C39: in a single run of an approval graph at most one of the execute
\* node and handle_rejection executes, and at most once; neither executes
\* unless human_review executed earlier in that run, with a pending action.
C39_OneOutcomeAfterReview ==
    (graph \in {"ex2", "ex3", "ex4"} /\ state # NoObject) =>
        /\ Cardinality(OutcomeSteps) <= 1
        /\ \A i \in OutcomeSteps :
             /\ \E j \in 1..(i - 1) : trace[j] = "human_review"
             /\ state.pendingAction # NoObject
             /\ (i = Len(trace) /\ phase # "threw") => prevState.pendingAction # NoObject

C39_Witness ==
    /\ graph = "ex4"
    /\ RunOver
    /\ Cardinality(OutcomeSteps) = 1
    /\ Executed("human_review")
    /\ Last(trace) = "execute_approved"
    /\ prevState.pendingAction # NoObject

\* ---- C40 ----
\* the states in which a run of exercise 4 can leave understand_request
Ex4_UnderstoodStates ==
    UNION {{Merge(Ex4_InitialState(m), o.update) :
               o \in Ex4_understandRequest(Ex4_InitialState(m))} :
           m \in Messages}

\* the pending actions the runs of exercise 4 can propose against the
\* current content of the leads table
Ex4_Proposals ==
    UNION {
        {o.update.pendingAction :
            o \in {x \in (CASE Ex4_Edges("understand_request", s) = "handle_update" ->
                                 Ex4_handleUpdate(s)
                            [] Ex4_Edges("understand_request", s) = "handle_followup" ->
                                 Ex4_handleFollowup(s)
                            [] OTHER -> {}) :
                     "pendingAction" \in DOMAIN x.update}} :
        s \in Ex4_UnderstoodStates}

\* a reply that exposes a pending action for approval
ExposesPendingAction ==
    /\ graph = "ex4"
    /\ RunAgentReplied
    /\ "pendingApproval" \in DOMAIN reply
    /\ reply.pendingApproval # NoObject

\* C40: the id under which a pending action is exposed for approval
\* identifies exactly one pending action: no other pending action that a
\* run can propose (an email where this one is an update of the same lead,
\* another change of the same lead) carries the same actionId.
C40_ActionIdIdentifiesOneAction ==
    ExposesPendingAction =>
        \A p \in Ex4_Proposals :
            p # state.pendingAction => p.leadId # reply.pendingApproval.actionId

====
